---- MODULE Spec2Model ----
(***************************************************************************)
(* Mental Load Assistant: the task store (MentalLoadTaskManager), the      *)
(* calendar reconciliation cycle (MentalLoadCoordinator._async_update_data)*)
(* and the item-level operations of the todo entity.                       *)
(*                                                                         *)
(* Strings that the code concatenates are sequences of one-character       *)
(* strings; None is the sentinel NoneStr.  uuid4() is a counter: every     *)
(* call returns an id never returned before.  A step of the model is what  *)
(* the event loop runs between two suspensions of a coroutine.             *)
(***************************************************************************)
EXTENDS Integers, Sequences, FiniteSets, TLC

VARIABLES
    tasks,              \* _tasks: uid -> StoredTask
    parent_children,    \* _parent_children: parent key -> set of child uids
    parent_meta,        \* _parent_meta: parent key -> metadata
    event_signatures,   \* _event_signatures: parent key -> signature
    uuidCount,          \* number of uuid4() calls made for task ids
    manualCount,        \* number of uuid4() calls made for manual parent keys
    calendars,          \* MentalLoadCoordinator._calendars: the configured calendar ids
    cycle,              \* the coroutine _async_update_data
    requested,          \* a second run of _async_update_data (async_request_refresh)
    manual,             \* the coroutine async_create_manual_entry
    prev,               \* history: what the previous cycle fetched, and how it ended
    last                \* history: the operation that ran last

store == <<tasks, parent_children, parent_meta, event_signatures>>
vars == <<tasks, parent_children, parent_meta, event_signatures, uuidCount,
          manualCount, calendars, cycle, requested, manual, prev, last>>

---------------------------------------------------------------------------
(* Bounds *)

MaxUid == 3          \* task ids generated in one behaviour
MaxPlanTasks == 2    \* tasks in one PlannedResponse

---------------------------------------------------------------------------
(* Values *)

NoneStr == <<"None">>
NoUid == 0
NoDue == [kind |-> "none", t |-> 0]

NEEDS_ACTION == "needs_action"
IN_PROGRESS == "in_progress"
COMPLETED == "completed"
NoStatus == "none"
Statuses == {NEEDS_ACTION, IN_PROGRESS, COMPLETED}

CALENDAR_SOURCE == <<"c", "a", "l", "e", "n", "d", "a", "r">>
MANUAL_SOURCE == <<"m", "a", "n", "u", "a", "l">>
DefaultParentSummary == <<"M", "L", "A">>

Put(f, k, v) == [x \in (DOMAIN f) \cup {k} |-> IF x = k THEN v ELSE f[x]]
Drop(f, S) == [x \in (DOMAIN f) \ S |-> f[x]]
Get(f, k, default) == IF k \in DOMAIN f THEN f[k] ELSE default

OrStr(s, default) == IF s = NoneStr \/ s = <<>> THEN default ELSE s

---------------------------------------------------------------------------
(* Dates and times.  A datetime is an instant t seen from a UTC offset tz; *)
(* a date is a day number.                                                 *)

Digit(n) == <<"0", "1", "2", "3", "4", "5", "6", "7", "8", "9">>[n + 1]

DateTime(t, tz) == [kind |-> "datetime", t |-> t, tz |-> tz]
Date(d) == [kind |-> "date", t |-> d, tz |-> 0]

\* dt_util.as_utc: the same instant, at offset 0.
AsUtc(value) == [value EXCEPT !.tz = 0]

\* datetime.isoformat of a UTC value.
IsoFormat(value) == <<"T", Digit(value.t), "Z", Digit(value.tz)>>

\* dt_util.start_of_local_day(date) then as_utc: the instant the day starts.
StartOfLocalDay(value) == [kind |-> "daystart", t |-> value.t, tz |-> 0]

\* _iso_or_empty: only a datetime is rendered, anything else gives "".
IsoOrEmpty(value) ==
    IF value.kind = "datetime" THEN IsoFormat(AsUtc(value)) ELSE <<>>

\* _parse_due for a datetime, a date or None.
ParseDue(value) ==
    IF value.kind = "datetime" THEN AsUtc(value)
    ELSE IF value.kind = "date" THEN StartOfLocalDay(value)
    ELSE NoDue

\* `a or b` on two optional datetimes.
OrDue(a, b) == IF a # NoDue THEN a ELSE b

\* "|".join of four strings.
Join4(a, b, c, d) == a \o <<"|">> \o b \o <<"|">> \o c \o <<"|">> \o d

\* _event_signature without the description.
EventSignatureNoDescription(event) ==
    Join4(OrStr(event.summary, <<>>), <<>>,
          IsoOrEmpty(event.start), IsoOrEmpty(event.end_))

\* _event_signature
EventSignature(event) ==
    Join4(OrStr(event.summary, <<>>), OrStr(event.description, <<>>),
          IsoOrEmpty(event.start), IsoOrEmpty(event.end_))

\* MentalLoadCoordinator._make_parent_key: "calendar:<calendar_id>:<uid>",
\* the uid falling back to "<start>_<end>_<summary>".
MakeParentKey(calendar_id, event) ==
    [src |-> "calendar", cal |-> calendar_id,
     id |-> IF event.uid # NoUid THEN <<event.uid>>
            ELSE <<event.start, event.end_, event.summary>>]

\* A manual key that does not depend on the uuid drawn.
ManualKeyReused(n) == [src |-> "manual", cal |-> "", id |-> <<1>>]

\* f"manual:{uuid.uuid4()}"
ManualKey(n) == [src |-> "manual", cal |-> "", id |-> <<n>>]

\* The prefix test answering yes for every key.
IsAnyKey(key) == key.src \in {"calendar", "manual"}

\* key.startswith("calendar:")
IsCalendarKey(key) == key.src = "calendar"

---------------------------------------------------------------------------
(* The store as a value, so that the helpers of the manager are operators. *)

Store(t, pc, pm, es, n) ==
    [tasks |-> t, parent_children |-> pc, parent_meta |-> pm,
     event_signatures |-> es, uuidCount |-> n]

CurrentStore == Store(tasks, parent_children, parent_meta, event_signatures, uuidCount)

\* _derive_parent_status answering NEEDS_ACTION for every plan.
DeriveParentStatusNeverUnderway(planTasks) == NEEDS_ACTION

\* _derive_parent_status
DeriveParentStatus(planTasks) ==
    IF Len(planTasks) = 0 THEN NEEDS_ACTION ELSE IN_PROGRESS

\* _derive_parent_status_from_children without the test for a completed child
\* among unfinished ones.
DeriveParentStatusNoPartial(t, pc, parent_uid) ==
    IF parent_uid \notin DOMAIN t THEN NEEDS_ACTION
    ELSE LET children == {uid \in Get(pc, t[parent_uid].parent_key, {}) : uid \in DOMAIN t}
         IN  IF children = {} THEN NEEDS_ACTION
             ELSE IF \A c \in children : t[c].status = COMPLETED THEN COMPLETED
             ELSE IF \E c \in children : t[c].status = IN_PROGRESS THEN IN_PROGRESS
             ELSE NEEDS_ACTION

\* _derive_parent_status_from_children
DeriveParentStatusFromChildren(t, pc, parent_uid) ==
    IF parent_uid \notin DOMAIN t THEN NEEDS_ACTION
    ELSE LET children == {uid \in Get(pc, t[parent_uid].parent_key, {}) : uid \in DOMAIN t}
         IN  IF children = {} THEN NEEDS_ACTION
             ELSE IF \A c \in children : t[c].status = COMPLETED THEN COMPLETED
             ELSE IF \E c \in children : t[c].status = IN_PROGRESS THEN IN_PROGRESS
             ELSE IF \E c \in children : t[c].status = COMPLETED THEN IN_PROGRESS
             ELSE NEEDS_ACTION

\* The TodoItem and StoredTask of a parent, as _replace_parent_tasks builds them.
ParentTask(parent_key, meta, plan, due_override) ==
    [summary |-> OrStr(meta.summary, DefaultParentSummary),
     status |-> DeriveParentStatus(plan.tasks),
     due |-> due_override,
     source |-> meta.source,
     parent_uid |-> NoUid,
     mental_load |-> plan.mental_load,
     parent_key |-> parent_key,
     is_parent |-> TRUE]

\* The TodoItem and StoredTask of a child, as _replace_parent_tasks builds them.
ChildTask(parent_key, meta, planned, parent_uid, due_override) ==
    [summary |-> OrStr(meta.summary, DefaultParentSummary) \o <<":", " ">> \o planned.title,
     status |-> NEEDS_ACTION,
     due |-> OrDue(planned.due, due_override),
     source |-> meta.source,
     parent_uid |-> parent_uid,
     mental_load |-> planned.effort,
     parent_key |-> parent_key,
     is_parent |-> FALSE]

\* _replace_parent_tasks without the loop that pops the existing children.
ReplaceParentTasksKeepingOld(s, parent_key, plan, due_override) ==
    LET parent_uid == s.uuidCount + 1
        meta == s.parent_meta[parent_key]
        n == Len(plan.tasks)
        child_uids == {parent_uid + i : i \in 1..n}
        new_tasks ==
            [uid \in (DOMAIN s.tasks) \cup {parent_uid} \cup child_uids |->
                IF uid = parent_uid
                THEN ParentTask(parent_key, meta, plan, due_override)
                ELSE IF uid \in child_uids
                THEN ChildTask(parent_key, meta, plan.tasks[uid - parent_uid],
                               parent_uid, due_override)
                ELSE s.tasks[uid]]
    IN  Store(new_tasks,
              Put(s.parent_children, parent_key, child_uids),
              Put(s.parent_meta, parent_key, [meta EXCEPT !.parent_uid = parent_uid]),
              s.event_signatures,
              s.uuidCount + 1 + n)

\* _replace_parent_tasks.  The caller has stored parent_meta[parent_key].
ReplaceParentTasks(s, parent_key, plan, due_override) ==
    LET existing == Get(s.parent_children, parent_key, {})
        kept == Drop(s.tasks, existing)
        parent_uid == s.uuidCount + 1
        meta == s.parent_meta[parent_key]
        n == Len(plan.tasks)
        child_uids == {parent_uid + i : i \in 1..n}
        new_tasks ==
            [uid \in (DOMAIN kept) \cup {parent_uid} \cup child_uids |->
                IF uid = parent_uid
                THEN ParentTask(parent_key, meta, plan, due_override)
                ELSE IF uid \in child_uids
                THEN ChildTask(parent_key, meta, plan.tasks[uid - parent_uid],
                               parent_uid, due_override)
                ELSE kept[uid]]
    IN  Store(new_tasks,
              Put(s.parent_children, parent_key, child_uids),
              Put(s.parent_meta, parent_key, [meta EXCEPT !.parent_uid = parent_uid]),
              s.event_signatures,
              s.uuidCount + 1 + n)

\* _remove_parent without the loop that pops the children.
RemoveParentKeepingChildren(s, parent_key) ==
    LET parent_uids ==
            IF parent_key \in DOMAIN s.parent_meta
               /\ s.parent_meta[parent_key].parent_uid # NoUid
            THEN {s.parent_meta[parent_key].parent_uid}
            ELSE {}
    IN  Store(Drop(s.tasks, parent_uids),
              Drop(s.parent_children, {parent_key}),
              Drop(s.parent_meta, {parent_key}),
              s.event_signatures,
              s.uuidCount)

\* _remove_parent
RemoveParent(s, parent_key) ==
    LET children == Get(s.parent_children, parent_key, {})
        parent_uids ==
            IF parent_key \in DOMAIN s.parent_meta
               /\ s.parent_meta[parent_key].parent_uid # NoUid
            THEN {s.parent_meta[parent_key].parent_uid}
            ELSE {}
    IN  Store(Drop(s.tasks, children \cup parent_uids),
              Drop(s.parent_children, {parent_key}),
              Drop(s.parent_meta, {parent_key}),
              s.event_signatures,
              s.uuidCount)

RECURSIVE RemoveParents(_, _)
RemoveParents(s, keys) ==
    IF keys = {} THEN s
    ELSE LET k == CHOOSE x \in keys : TRUE
         IN  RemoveParents(RemoveParent(s, k), keys \ {k})

\* remove_missing_calendar_events
RemoveMissingCalendarEvents(s, valid_parent_keys) ==
    LET to_remove == {key \in DOMAIN s.parent_meta :
                        IsCalendarKey(key) /\ key \notin valid_parent_keys}
    IN  RemoveParents(s, to_remove)

---------------------------------------------------------------------------
(* Inputs: what the calendars, the planning backend and the user supply.   *)

Event(uid, summary, description, start, end_) ==
    [uid |-> uid, summary |-> summary, description |-> description,
     start |-> start, end_ |-> end_]

\* The events a calendar may return: an event and an event of the same uid
\* with another description (the event edited, or two entries sharing a uid).
EventPool ==
    { Event(1, <<"a">>, NoneStr, DateTime(1, 0), DateTime(2, 0)),
      Event(1, <<"a">>, <<"d">>, DateTime(1, 0), DateTime(2, 0)) }

\* The lists a calendar may return for the window: any events of the pool,
\* each at most once, in any order.
RECURSIVE ListsOf(_)
ListsOf(S) ==
    {<<>>} \cup UNION {{<<x>> \o q : q \in ListsOf(S \ {x})} : x \in S}

EventLists == ListsOf(EventPool)

\* The lists in which no two events share a uid.
DistinctEventLists ==
    {l \in EventLists : \A i, j \in 1..Len(l) : l[i].uid = l[j].uid => i = j}

PlannedTask(i) ==
    [title |-> <<"t", Digit(i)>>, description |-> NoneStr, due |-> NoDue,
     effort |-> NoneStr, category |-> NoneStr, notes |-> NoneStr]

\* The PlannedResponse values the planning client may return.
Plans ==
    { [tasks |-> [i \in 1..n |-> PlannedTask(i)], mental_load |-> NoneStr,
       summary_notes |-> NoneStr] : n \in 0..MaxPlanTasks }

NoSignature == NoneStr

---------------------------------------------------------------------------
(* The planning client (MentalLoadAI), configured with an API key.  The    *)
(* backend's behaviour is an outcome: "ok" with the plan its answer parses *)
(* to, or one of the failures, each raising the exception named for it.    *)

\* The plan of a call that returned none.
NoPlan == [tasks |-> <<>>, mental_load |-> NoneStr, summary_notes |-> NoneStr]

BackendFailures ==
    {"connection_error", "timeout", "http_error", "not_json", "missing_key",
     "empty_choices"}

BackendOutcomes ==
    {[kind |-> "ok", answer |-> plan] : plan \in Plans}
    \cup {[kind |-> failure, answer |-> NoPlan] : failure \in BackendFailures}

\* What the request and the parsing of the answer raise for an outcome:
\* session.post raises ClientError on a connection error and TimeoutError when
\* ClientTimeout(total=60) expires; a status >= 400 raises MentalLoadAIError;
\* json.loads raises JSONDecodeError; data["choices"] raises KeyError and
\* [0] on an empty list raises IndexError.
ExceptionOf(failure) ==
    CASE failure = "connection_error" -> "ClientError"
      [] failure = "timeout" -> "TimeoutError"
      [] failure = "http_error" -> "MentalLoadAIError"
      [] failure = "not_json" -> "JSONDecodeError"
      [] failure = "missing_key" -> "KeyError"
      [] failure = "empty_choices" -> "IndexError"
      [] OTHER -> "none"

\* except (aiohttp.ClientError, KeyError, json.JSONDecodeError, MentalLoadAIError)
CaughtExceptions == {"ClientError", "KeyError", "JSONDecodeError", "MentalLoadAIError"}

\* str.lower, on the letters the summaries of the model use.
Lower(str) ==
    [i \in 1..Len(str) |->
        CASE str[i] = "A" -> "a" [] str[i] = "F" -> "f" [] str[i] = "M" -> "m"
          [] OTHER -> str[i]]

\* `keyword in normalized`
Contains(str, keyword) ==
    \E i \in 1..(Len(str) - Len(keyword) + 1) :
        SubSeq(str, i, i + Len(keyword) - 1) = keyword

\* _default_breakdown: three (title, details) pairs chosen by keyword.
DefaultBreakdown(summary, description) ==
    LET normalized == Lower(summary)
        any(keywords) == \E k \in keywords : Contains(normalized, k)
    IN  IF any({<<"r", "e", "p", "a", "r">>, <<"f", "i", "x">>,
                <<"r", "e", "p", "a", "i", "r">>})
        THEN << <<<<"Problem verstehen und Dokumentation pruefen">>, description>>,
                <<<<"Benoetigte Teile oder Service organisieren">>, NoneStr>>,
                <<<<"Reparatur durchfuehren und testen">>, NoneStr>> >>
        ELSE IF any({<<"g", "e", "b", "u", "r", "t", "s", "t", "a", "g">>,
                     <<"p", "a", "r", "t", "y">>, <<"f", "e", "i", "e", "r">>})
        THEN << <<<<"Gaesteliste und Einladungen">>, description>>,
                <<<<"Einkaufsliste und Dekoration planen">>, NoneStr>>,
                <<<<"Vorbereitung am Veranstaltungstag">>, NoneStr>> >>
        ELSE << <<<<"Aufgabe planen">>, description>>,
                <<<<"Ressourcen beschaffen">>, NoneStr>>,
                <<<<"Durchfuehrung abschliessen">>, NoneStr>> >>

\* The value of a digit character.
DigitValue(c) == CHOOSE n \in 0..9 : Digit(n) = c

\* dt_util.parse_datetime of a string, then as_utc; None for what does not parse.
ParseDatetime(str) ==
    IF Len(str) = 4 /\ str[1] = "T" /\ str[3] = "Z"
       /\ (\E n \in 0..9 : Digit(n) = str[2]) /\ (\E n \in 0..9 : Digit(n) = str[4])
    THEN AsUtc(DateTime(DigitValue(str[2]), DigitValue(str[4])))
    ELSE NoDue

\* _parse_dt of a payload value: an ISO string or None.
ParseDt(value) == IF value = NoneStr THEN NoDue ELSE ParseDatetime(value)

\* `dt_util.as_utc(x).isoformat() if x else None` of the payloads.
PayloadTime(value) == IF value = NoDue THEN NoneStr ELSE IsoFormat(AsUtc(value))

\* as_utc reads x.tzinfo, which a date does not have: AttributeError.
PayloadTimeRaises(value) == value.kind = "date"

\* The payload of async_plan_for_calendar_event.
CalendarPayload(event) ==
    [summary |-> event.summary, description |-> event.description,
     due |-> NoneStr, end_ |-> PayloadTime(event.end_)]

\* The payload of async_plan_for_manual_request.
ManualPayload(summary, due) ==
    [summary |-> summary, description |-> NoneStr,
     due |-> PayloadTime(due), end_ |-> NoneStr]

\* _fallback_plan leaving out the last component when the request has no
\* due and no end.
FallbackPlanShortWithoutDue(payload) ==
    LET summary == OrStr(payload.summary, <<"Aufgabe">>)
        base_due == OrDue(ParseDt(payload.due), ParseDt(payload.end_))
        components == DefaultBreakdown(summary, payload.description)
        n == IF base_due = NoDue THEN Len(components) - 1 ELSE Len(components)
    IN  [tasks |-> [i \in 1..n |->
                      [title |-> components[i][1], description |-> components[i][2],
                       due |-> base_due, effort |-> NoneStr, category |-> NoneStr,
                       notes |-> NoneStr]],
         mental_load |-> <<"unknown">>,
         summary_notes |-> <<"Automatisch erzeugter Plan (Fallback)">>]

\* _fallback_plan
FallbackPlan(payload) ==
    LET summary == OrStr(payload.summary, <<"Aufgabe">>)
        base_due == OrDue(ParseDt(payload.due), ParseDt(payload.end_))
        components == DefaultBreakdown(summary, payload.description)
    IN  [tasks |-> [i \in 1..Len(components) |->
                      [title |-> components[i][1], description |-> components[i][2],
                       due |-> base_due, effort |-> NoneStr, category |-> NoneStr,
                       notes |-> NoneStr]],
         mental_load |-> <<"unknown">>,
         summary_notes |-> <<"Automatisch erzeugter Plan (Fallback)">>]

\* The result of a planning call: a plan returned, or an exception raised.
Returned(plan) == [raised |-> FALSE, plan |-> plan, exception |-> "none"]
Raised(exception) == [raised |-> TRUE, plan |-> NoPlan, exception |-> exception]

\* _async_generate_plan: the answer's plan, the fallback for the exceptions
\* the except clause names, the exception itself for any other.
GeneratePlan(payload, outcome) ==
    IF outcome.kind = "ok" THEN Returned(outcome.answer)
    ELSE IF ExceptionOf(outcome.kind) \in CaughtExceptions
    THEN Returned(FallbackPlan(payload))
    ELSE Raised(ExceptionOf(outcome.kind))

\* async_plan_for_calendar_event
PlanForCalendarEvent(event, outcome) ==
    IF PayloadTimeRaises(event.start) \/ PayloadTimeRaises(event.end_)
    THEN Raised("AttributeError")
    ELSE GeneratePlan(CalendarPayload(event), outcome)

\* async_plan_for_manual_request
PlanForManualRequest(summary, due, outcome) ==
    GeneratePlan(ManualPayload(summary, due), outcome)

---------------------------------------------------------------------------
(* async_process_calendar_event, after the planning call has returned.     *)

ProcessCalendarEventInstall(s, parent_key, event, plan) ==
    LET meta == [source |-> CALENDAR_SOURCE, summary |-> event.summary,
                 mental_load |-> plan.mental_load, notes |-> plan.summary_notes,
                 parent_uid |-> NoUid]
        s1 == [s EXCEPT
                 !.event_signatures = Put(@, parent_key, EventSignature(event)),
                 !.parent_meta = Put(@, parent_key, meta)]
        due_dt == OrDue(ParseDue(event.start), ParseDue(event.end_))
    IN  ReplaceParentTasks(s1, parent_key, plan, due_dt)

\* async_create_manual_entry, after the planning call has returned.
CreateManualEntryInstall(s, parent_key, summary, due_dt, plan) ==
    LET meta == [source |-> MANUAL_SOURCE, summary |-> summary,
                 mental_load |-> plan.mental_load, notes |-> plan.summary_notes,
                 parent_uid |-> NoUid]
        s1 == [s EXCEPT !.parent_meta = Put(@, parent_key, meta)]
    IN  ReplaceParentTasks(s1, parent_key, plan, due_dt)

\* async_process_calendar_event up to its first suspension: TRUE when the
\* event is skipped (the method returns False without calling the planner).
SignatureUnchanged(s, parent_key, event) ==
    Get(s.event_signatures, parent_key, NoSignature) = EventSignature(event)

\* observed_parents once every event of `events` has been looked at.
ObservedAfter(cals, ci, events, observed) ==
    observed \cup {MakeParentKey(cals[ci], events[i]) : i \in 1..Len(events)}

IdleCycle == [pc |-> "idle", ci |-> 0, events |-> <<>>, observed |-> {}]

\* The second run, not started.  `behind` is set when the run calls the
\* planner for a key while the first run is suspended in its own planning
\* call for that key.
IdleRequested == IdleCycle @@ [behind |-> FALSE]

\* _async_update_data from one suspension to the next: the loop over the
\* events of calendar ci and over the calendars, then the prune.  The result
\* is the store and the coroutine's new position.
RECURSIVE RunCycle(_, _, _, _, _)
RunCycle(cals, s, ci, events, observed) ==
    IF events = <<>>
    THEN IF ci < Len(cals)
         THEN [store |-> s,
               cycle |-> [pc |-> "fetch", ci |-> ci + 1, events |-> <<>>,
                          observed |-> observed]]
         ELSE [store |-> RemoveMissingCalendarEvents(s, observed),
               cycle |-> IdleCycle]
    ELSE LET event == Head(events)
             parent_key == MakeParentKey(cals[ci], event)
             seen == observed \cup {parent_key}
         IN  IF SignatureUnchanged(s, parent_key, event)
             THEN RunCycle(cals, s, ci, Tail(events), seen)
             ELSE [store |-> s,
                   cycle |-> [pc |-> "plan", ci |-> ci, events |-> events,
                              observed |-> seen]]

---------------------------------------------------------------------------
(* The item-level operations on the store.                                 *)

\* item.status or TodoItemStatus.NEEDS_ACTION
NewStatus(status) == IF status = NoStatus THEN NEEDS_ACTION ELSE status

\* The propagation with NEEDS_ACTION resetting every child, not only the
\* completed ones.
PropagatedChildStatusResetAll(new_status, child_status) ==
    IF new_status = COMPLETED THEN COMPLETED
    ELSE IF new_status = NEEDS_ACTION THEN NEEDS_ACTION
    ELSE child_status

\* async_update_item, branch `if stored.is_parent`: the status a child gets.
PropagatedChildStatus(new_status, child_status) ==
    IF new_status = COMPLETED THEN COMPLETED
    ELSE IF new_status = NEEDS_ACTION /\ child_status = COMPLETED THEN NEEDS_ACTION
    ELSE child_status

\* async_update_item without the branch that re-derives the parent of a child.
UpdateItemTasksNoRederive(t, pc, uid, status) ==
    LET new_status == NewStatus(status)
        t1 == [t EXCEPT ![uid].status = new_status]
        stored == t1[uid]
    IN  IF stored.is_parent
        THEN LET children == Get(pc, stored.parent_key, {})
             IN  [u \in DOMAIN t1 |->
                    IF u \in children
                    THEN [t1[u] EXCEPT !.status = PropagatedChildStatus(new_status, @)]
                    ELSE t1[u]]
        ELSE t1

\* async_update_item propagating a parent's status to every child task
\* stored, whatever its parent key.
UpdateItemTasksAllChildren(t, pc, uid, status) ==
    LET new_status == NewStatus(status)
        t1 == [t EXCEPT ![uid].status = new_status]
        stored == t1[uid]
    IN  IF stored.is_parent
        THEN [u \in DOMAIN t1 |->
                IF ~t1[u].is_parent
                THEN [t1[u] EXCEPT !.status = PropagatedChildStatus(new_status, @)]
                ELSE t1[u]]
        ELSE LET parent_uid == stored.parent_uid
             IN  IF parent_uid # NoUid /\ parent_uid \in DOMAIN t1
                 THEN [t1 EXCEPT ![parent_uid].status =
                          DeriveParentStatusFromChildren(t1, pc, parent_uid)]
                 ELSE t1

\* async_update_item on a known uid.
UpdateItemTasks(t, pc, uid, status) ==
    LET new_status == NewStatus(status)
        t1 == [t EXCEPT ![uid].status = new_status]
        stored == t1[uid]
    IN  IF stored.is_parent
        THEN LET children == Get(pc, stored.parent_key, {})
             IN  [u \in DOMAIN t1 |->
                    IF u \in children
                    THEN [t1[u] EXCEPT !.status = PropagatedChildStatus(new_status, @)]
                    ELSE t1[u]]
        ELSE LET parent_uid == stored.parent_uid
             IN  IF parent_uid # NoUid /\ parent_uid \in DOMAIN t1
                 THEN [t1 EXCEPT ![parent_uid].status =
                          DeriveParentStatusFromChildren(t1, pc, parent_uid)]
                 ELSE t1

\* async_delete_item without `children.remove(uid)`.
DeleteItemStoreKeepingChildId(s, uid) ==
    LET stored == s.tasks[uid]
    IN  IF stored.is_parent
        THEN RemoveParent(s, stored.parent_key)
        ELSE LET t1 == Drop(s.tasks, {uid})
                 parent_uid == stored.parent_uid
                 t2 == IF parent_uid # NoUid /\ parent_uid \in DOMAIN t1
                       THEN [t1 EXCEPT ![parent_uid].status =
                                DeriveParentStatusFromChildren(t1, s.parent_children,
                                                               parent_uid)]
                       ELSE t1
             IN  [s EXCEPT !.tasks = t2]

\* async_delete_item on a known uid.
DeleteItemStore(s, uid) ==
    LET stored == s.tasks[uid]
    IN  IF stored.is_parent
        THEN RemoveParent(s, stored.parent_key)
        ELSE LET t1 == Drop(s.tasks, {uid})
                 pc1 == IF stored.parent_key \in DOMAIN s.parent_children
                        THEN [s.parent_children EXCEPT ![stored.parent_key] = @ \ {uid}]
                        ELSE s.parent_children
                 parent_uid == stored.parent_uid
                 t2 == IF parent_uid # NoUid /\ parent_uid \in DOMAIN t1
                       THEN [t1 EXCEPT ![parent_uid].status =
                                DeriveParentStatusFromChildren(t1, pc1, parent_uid)]
                       ELSE t1
             IN  [s EXCEPT !.tasks = t2, !.parent_children = pc1]

\* async_update_item storing a task for an id it does not know.
UpdateItemCallUpserting(s, uid, status) ==
    IF uid \in DOMAIN s.tasks
    THEN [s EXCEPT !.tasks = UpdateItemTasks(s.tasks, s.parent_children, uid, status)]
    ELSE [s EXCEPT !.tasks =
             Put(@, uid, [summary |-> DefaultParentSummary, status |-> NewStatus(status),
                          due |-> NoDue, source |-> MANUAL_SOURCE, parent_uid |-> NoUid,
                          mental_load |-> NoneStr, parent_key |-> ManualKey(0),
                          is_parent |-> TRUE])]

\* async_update_item: an id that is not in _tasks is logged and the call
\* returns.
UpdateItemCall(s, uid, status) ==
    IF uid \in DOMAIN s.tasks
    THEN [s EXCEPT !.tasks = UpdateItemTasks(s.tasks, s.parent_children, uid, status)]
    ELSE s

\* async_delete_item: an id that is not in _tasks makes the call return.
DeleteItemCall(s, uid) ==
    IF uid \in DOMAIN s.tasks THEN DeleteItemStore(s, uid) ELSE s

---------------------------------------------------------------------------
(* The calls of _notify_listeners an operation makes: the sequence of the  *)
(* stores the registered listeners are called on, one per call (each call  *)
(* runs every listener of _listeners).                                     *)

\* _replace_parent_tasks notifies once, as its last statement; its caller
\* async_process_calendar_event writes nothing after it.
ProcessCalendarEventNotified(s, parent_key, event, plan) ==
    <<ProcessCalendarEventInstall(s, parent_key, event, plan)>>

\* remove_missing_calendar_events notifies after the removals, `if to_remove`.
RemoveMissingCalendarEventsNotified(s, valid_parent_keys) ==
    IF \E key \in DOMAIN s.parent_meta :
          IsCalendarKey(key) /\ key \notin valid_parent_keys
    THEN <<RemoveMissingCalendarEvents(s, valid_parent_keys)>>
    ELSE <<>>

\* async_update_item notifying only when the item is a parent.
UpdateItemNotifiedForParents(s, uid, status) ==
    IF uid \in DOMAIN s.tasks /\ s.tasks[uid].is_parent
    THEN <<UpdateItemCall(s, uid, status)>>
    ELSE <<>>

\* async_update_item returns before notifying for an unknown id, and
\* notifies as its last statement otherwise.
UpdateItemNotified(s, uid, status) ==
    IF uid \in DOMAIN s.tasks THEN <<UpdateItemCall(s, uid, status)>> ELSE <<>>

\* async_delete_item: the same.
DeleteItemNotified(s, uid) ==
    IF uid \in DOMAIN s.tasks THEN <<DeleteItemCall(s, uid)>> ELSE <<>>

\* What a uid is in the store, for the history variable.
KindOf(t, uid) ==
    IF uid \notin DOMAIN t THEN "unknown"
    ELSE IF t[uid].is_parent THEN "parent" ELSE "child"

---------------------------------------------------------------------------
(* The state machine.                                                      *)

\* History is recorded only in the specifications whose initial state
\* switches it on; elsewhere the history variables keep the value Off.
\* `last` records at level "ui" the item-level operations (update, delete:
\* the kind of task they were called on and the status passed), and at level
\* "all" every operation with the uid it was about.
Off == [off |-> TRUE]
NoOp(level) ==
    [level |-> level, op |-> "init", uid |-> NoUid, status |-> NoStatus, kind |-> "none"]
Op(op, uid, status, kind) ==
    IF last = Off THEN Off
    ELSE IF last.level = "all"
    THEN [level |-> "all", op |-> op, uid |-> uid, status |-> status, kind |-> kind]
    ELSE IF op \in {"update", "delete"}
    THEN [level |-> "ui", op |-> op, uid |-> NoUid, status |-> status, kind |-> kind]
    ELSE [level |-> "ui", op |-> "other", uid |-> NoUid, status |-> NoStatus,
          kind |-> "none"]

NoFetch == [i \in 1..Len(calendars) |-> <<>>]
EndedPrev(observed) ==
    IF prev = Off THEN Off
    ELSE [fetched |-> NoFetch, completed |-> FALSE, observed |-> observed]

SetStore(s) ==
    /\ tasks' = s.tasks
    /\ parent_children' = s.parent_children
    /\ parent_meta' = s.parent_meta
    /\ event_signatures' = s.event_signatures
    /\ uuidCount' = s.uuidCount

InitWith(cals, lastLevel, prevOn) ==
    /\ calendars = cals
    /\ tasks = << >>
    /\ parent_children = << >>
    /\ parent_meta = << >>
    /\ event_signatures = << >>
    /\ uuidCount = 0
    /\ manualCount = 0
    /\ cycle = [IdleCycle EXCEPT !.pc = "idle"] @@ [repeat |-> FALSE]
    /\ requested = IdleRequested
    /\ manual = [pc |-> "idle", summary |-> NoneStr, due |-> NoDue]
    /\ prev = IF prevOn
              THEN [fetched |-> [i \in 1..Len(cals) |-> <<>>], completed |-> FALSE,
                    observed |-> {}]
              ELSE Off
    /\ last = IF lastLevel = "off" THEN Off ELSE NoOp(lastLevel)

Init == InitWith(<<"c1">>, "off", FALSE)

\* The coroutine's position after RunCycle(.., observed), and the history of
\* the cycle: `observed` becomes the previous cycle's when the cycle ends.
AfterRun(r, repeat, fetched, observed) ==
    /\ SetStore(r.store)
    /\ cycle' = r.cycle @@ [repeat |-> IF r.cycle.pc = "idle" THEN FALSE ELSE repeat]
    /\ prev' = IF prev = Off THEN Off
               ELSE IF r.cycle.pc = "idle"
               THEN [fetched |-> fetched, completed |-> TRUE, observed |-> observed]
               ELSE [prev EXCEPT !.fetched = fetched]

\* _async_update_data is called: it runs to `await async_get_events` of the
\* first calendar.
CycleStart ==
    /\ cycle.pc = "idle"
    /\ Len(calendars) > 0
    /\ cycle' = [pc |-> "fetch", ci |-> 1, events |-> <<>>, observed |-> {},
                 repeat |-> prev # Off /\ prev.completed]
    /\ last' = Op("cycle_start", NoUid, NoStatus, "none")
    /\ UNCHANGED <<calendars, requested, store, uuidCount, manualCount, manual, prev>>

\* async_get_events returns `events` for calendar cycle.ci.
CycleFetchReturn(events) ==
    /\ cycle.pc = "fetch"
    /\ LET r == RunCycle(calendars, CurrentStore, cycle.ci, events, cycle.observed)
       IN  /\ AfterRun(r, cycle.repeat /\ events = prev.fetched[cycle.ci],
                       IF prev = Off THEN Off
                       ELSE [prev.fetched EXCEPT ![cycle.ci] = events],
                       ObservedAfter(calendars, cycle.ci, events, cycle.observed))
           /\ last' = Op(IF r.cycle.pc = "idle" THEN "cycle_done"
                         ELSE IF r.cycle.pc = "plan" THEN "cycle_call" ELSE "cycle_fetch",
                         NoUid, NoStatus, "none")
    /\ UNCHANGED <<calendars, requested, manualCount, manual>>

\* async_get_events raises, and the cycle prunes with the keys observed so
\* far before it ends.
CycleFetchFailsPruning ==
    /\ cycle.pc = "fetch"
    /\ cycle' = IdleCycle @@ [repeat |-> FALSE]
    /\ prev' = EndedPrev(cycle.observed)
    /\ last' = Op("fetch_failed", NoUid, NoStatus, "none")
    /\ SetStore(RemoveMissingCalendarEvents(CurrentStore, cycle.observed))
    /\ UNCHANGED <<calendars, requested, manualCount, manual>>

\* async_get_events raises: UpdateFailed ends the cycle, the prune is not run.
CycleFetchFails ==
    /\ cycle.pc = "fetch"
    /\ cycle' = IdleCycle @@ [repeat |-> FALSE]
    /\ prev' = EndedPrev(cycle.observed)
    /\ last' = Op("fetch_failed", NoUid, NoStatus, "none")
    /\ UNCHANGED <<calendars, requested, store, uuidCount, manualCount, manual>>

\* The planning call of async_process_calendar_event returns `plan`.
CyclePlanReturn(plan) ==
    /\ cycle.pc = "plan"
    /\ uuidCount + 1 + Len(plan.tasks) <= MaxUid
    /\ LET event == Head(cycle.events)
           parent_key == MakeParentKey(calendars[cycle.ci], event)
           s1 == ProcessCalendarEventInstall(CurrentStore, parent_key, event, plan)
           r == RunCycle(calendars, s1, cycle.ci, Tail(cycle.events), cycle.observed)
       IN  /\ AfterRun(r, cycle.repeat, IF prev = Off THEN Off ELSE prev.fetched,
                       ObservedAfter(calendars, cycle.ci, cycle.events, cycle.observed))
           /\ last' = Op(IF r.cycle.pc = "idle" THEN "cycle_done"
                         ELSE IF r.cycle.pc = "plan" THEN "cycle_call" ELSE "cycle_fetch",
                         s1.parent_meta[parent_key].parent_uid, NoStatus, "installed")
    /\ UNCHANGED <<calendars, requested, manualCount, manual>>

\* The planning call raises, the signature having been recorded before the
\* call.
CyclePlanRaisesSignatureFirst ==
    /\ cycle.pc = "plan"
    /\ cycle' = IdleCycle @@ [repeat |-> FALSE]
    /\ prev' = EndedPrev(cycle.observed)
    /\ last' = Op("cycle_failed", NoUid, NoStatus, "none")
    /\ event_signatures' =
           Put(event_signatures, MakeParentKey(calendars[cycle.ci], Head(cycle.events)),
               EventSignature(Head(cycle.events)))
    /\ UNCHANGED <<calendars, requested, tasks, parent_children, parent_meta, uuidCount,
                   manualCount, manual>>

\* The planning call raises an exception the client does not catch: it
\* leaves async_process_calendar_event and _async_update_data.
CyclePlanRaises ==
    /\ cycle.pc = "plan"
    /\ cycle' = IdleCycle @@ [repeat |-> FALSE]
    /\ prev' = EndedPrev(cycle.observed)
    /\ last' = Op("cycle_failed", NoUid, NoStatus, "none")
    /\ UNCHANGED <<calendars, requested, store, uuidCount, manualCount, manual>>

\* The position of the second run after RunCycle: `behind` when it is now
\* suspended in the planning call for the key the first run is planning.
AfterRequestedRun(r) ==
    /\ SetStore(r.store)
    /\ requested' =
           r.cycle @@
           [behind |->
               /\ r.cycle.pc = "plan"
               /\ cycle.pc = "plan"
               /\ MakeParentKey(calendars[r.cycle.ci], Head(r.cycle.events)) =
                      MakeParentKey(calendars[cycle.ci], Head(cycle.events))]

\* async_request_refresh: _async_update_data is called a second time, the
\* first call being anywhere; it runs to its first `await async_get_events`.
RequestedStart ==
    /\ requested.pc = "idle"
    /\ Len(calendars) > 0
    /\ requested' = [pc |-> "fetch", ci |-> 1, events |-> <<>>, observed |-> {},
                     behind |-> FALSE]
    /\ UNCHANGED <<calendars, store, uuidCount, manualCount, cycle, manual, prev, last>>

\* async_get_events returns `events` to the second run.
RequestedFetchReturn(events) ==
    /\ requested.pc = "fetch"
    /\ AfterRequestedRun(RunCycle(calendars, CurrentStore, requested.ci, events,
                                  requested.observed))
    /\ UNCHANGED <<calendars, manualCount, cycle, manual, prev, last>>

\* async_get_events raises in the second run.
RequestedFetchFails ==
    /\ requested.pc = "fetch"
    /\ requested' = IdleRequested
    /\ UNCHANGED <<calendars, store, uuidCount, manualCount, cycle, manual, prev, last>>

\* The planning call of the second run returns `plan`.
RequestedPlanReturn(plan) ==
    /\ requested.pc = "plan"
    /\ uuidCount + 1 + Len(plan.tasks) <= MaxUid
    /\ LET event == Head(requested.events)
           parent_key == MakeParentKey(calendars[requested.ci], event)
           s1 == ProcessCalendarEventInstall(CurrentStore, parent_key, event, plan)
       IN  AfterRequestedRun(RunCycle(calendars, s1, requested.ci,
                                      Tail(requested.events), requested.observed))
    /\ UNCHANGED <<calendars, manualCount, cycle, manual, prev, last>>

\* The planning call of the second run raises.
RequestedPlanRaises ==
    /\ requested.pc = "plan"
    /\ requested' = IdleRequested
    /\ UNCHANGED <<calendars, store, uuidCount, manualCount, cycle, manual, prev, last>>

\* async_create_manual_entry is called: it runs to the planning call.
ManualStart(summary, due) ==
    /\ manual.pc = "idle"
    /\ manual' = [pc |-> "plan", summary |-> summary, due |-> ParseDue(due)]
    /\ last' = Op("manual_call", NoUid, NoStatus, "none")
    /\ UNCHANGED <<calendars, requested, store, uuidCount, manualCount, cycle, prev>>

\* The planning call of async_create_manual_entry returns `plan`.
ManualPlanReturn(plan) ==
    /\ manual.pc = "plan"
    /\ uuidCount + 1 + Len(plan.tasks) <= MaxUid
    /\ LET parent_key == ManualKey(manualCount + 1)
           s1 == CreateManualEntryInstall(CurrentStore, parent_key, manual.summary,
                                          manual.due, plan)
       IN  /\ SetStore(s1)
           /\ last' = Op("manual_done", s1.parent_meta[parent_key].parent_uid,
                         NoStatus, "installed")
    /\ manualCount' = manualCount + 1
    /\ manual' = [pc |-> "idle", summary |-> NoneStr, due |-> NoDue]
    /\ UNCHANGED <<calendars, requested, cycle, prev>>

\* The planning call of async_create_manual_entry raises.
ManualPlanRaises ==
    /\ manual.pc = "plan"
    /\ manual' = [pc |-> "idle", summary |-> NoneStr, due |-> NoDue]
    /\ last' = Op("manual_failed", NoUid, NoStatus, "none")
    /\ UNCHANGED <<calendars, requested, store, uuidCount, manualCount, cycle, prev>>

\* async_update_item(item) with item.uid = uid and item.status = status.
UpdateItem(uid, status) ==
    /\ tasks' = UpdateItemCall(CurrentStore, uid, status).tasks
    /\ last' = Op("update", uid, IF uid \in DOMAIN tasks THEN NewStatus(status) ELSE NoStatus,
                  KindOf(tasks, uid))
    /\ UNCHANGED <<parent_children, parent_meta, event_signatures, uuidCount,
                   manualCount, calendars, requested, cycle, manual, prev>>

\* async_delete_item(uid).
DeleteItem(uid) ==
    /\ SetStore(DeleteItemCall(CurrentStore, uid))
    /\ last' = Op("delete", uid, NoStatus, KindOf(tasks, uid))
    /\ UNCHANGED <<calendars, requested, manualCount, cycle, manual, prev>>

\* The attributes a MentalLoadTaskManager has: the methods and the property
\* its class defines.
ManagerMethods ==
    {"title", "async_add_listener", "_notify_listeners", "iter_items",
     "async_process_calendar_event", "async_create_manual_entry",
     "remove_missing_calendar_events", "_replace_parent_tasks", "_remove_parent",
     "async_update_item", "async_delete_item", "_derive_parent_status",
     "_derive_parent_status_from_children"}

\* _async_handle_mark_in_progress with an instance selected: the handler
\* awaits manager.async_mark_in_progress(uid); looking up an attribute the
\* manager does not have raises AttributeError before anything is called.
MarkInProgressCall(s, uid) ==
    IF "async_mark_in_progress" \in ManagerMethods
    THEN [raised |-> FALSE, store |-> UpdateItemCall(s, uid, IN_PROGRESS)]
    ELSE [raised |-> TRUE, store |-> s]

\* The service mental_load_assistant.mark_in_progress called with uid.
MarkInProgress(uid) ==
    LET r == MarkInProgressCall(CurrentStore, uid)
    IN  /\ SetStore(r.store)
        /\ last' = Op(IF r.raised THEN "mark_in_progress_raised" ELSE "mark_in_progress",
                      uid, NoStatus, KindOf(tasks, uid))
        /\ UNCHANGED <<calendars, requested, manualCount, cycle, manual, prev>>

\* The code point of a character of the summaries used here.
CharCode(c) ==
    CASE c = " " -> 32 [] c = ":" -> 58
      [] c = "A" -> 65 [] c = "F" -> 70 [] c = "M" -> 77
      [] c = "a" -> 97 [] c = "f" -> 102 [] c = "i" -> 105 [] c = "m" -> 109
      [] c = "t" -> 116 [] c = "x" -> 120
      [] c \in {Digit(n) : n \in 0..9} -> 48 + DigitValue(c)
      [] OTHER -> 0

\* str < str on two Python strings: lexicographic on code points.
RECURSIVE StrLess(_, _)
StrLess(a, b) ==
    IF b = <<>> THEN FALSE
    ELSE IF a = <<>> THEN TRUE
    ELSE IF CharCode(Head(a)) # CharCode(Head(b))
    THEN CharCode(Head(a)) < CharCode(Head(b))
    ELSE StrLess(Tail(a), Tail(b))

\* datetime.max.replace(tzinfo=UTC), on the scale of the instants t.
DatetimeMax == 10

\* _todo_sort_key comparing the summaries as they are.
TodoSortKeyCaseSensitive(item) ==
    <<IF item.due = NoDue THEN DatetimeMax ELSE item.due.t, item.summary>>

\* _todo_sort_key
TodoSortKey(item) ==
    <<IF item.due = NoDue THEN DatetimeMax ELSE item.due.t, Lower(item.summary)>>

\* tuple < tuple on two sort keys.
KeyLess(k1, k2) == k1[1] < k2[1] \/ (k1[1] = k2[1] /\ StrLess(k1[2], k2[2]))

\* list.sort(key=_todo_sort_key) is stable: `uid` goes after every element
\* of the sorted list whose key is not greater than its own.
RECURSIVE InsertSorted(_, _, _)
InsertSorted(t, sorted, uid) ==
    IF sorted = <<>> THEN <<uid>>
    ELSE IF KeyLess(TodoSortKey(t[uid]), TodoSortKey(t[Head(sorted)]))
    THEN <<uid>> \o sorted
    ELSE <<Head(sorted)>> \o InsertSorted(t, Tail(sorted), uid)

\* The uids of _tasks.values() up to uid n, sorted (the dict keeps the order
\* of insertion, which is the order of the uids).
RECURSIVE SortedUpTo(_, _)
SortedUpTo(t, n) ==
    IF n = 0 THEN <<>>
    ELSE IF n \in DOMAIN t THEN InsertSorted(t, SortedUpTo(t, n - 1), n)
    ELSE SortedUpTo(t, n - 1)

\* iter_items: the uids of the items returned, in order.
IterItems(t, n) == SortedUpTo(t, n)

ManualSummaries == {<<"m">>}
ManualDues == {DateTime(3, 0)}

\* The uids a caller may pass: those in the store and one that is not (the
\* operations only test membership, so one unknown uid stands for all).
KnownOrNot == (DOMAIN tasks) \cup {uuidCount + 1}

\* How the planning call the cycle is suspended in may end.
CyclePlanResults ==
    IF cycle.pc = "plan"
    THEN {PlanForCalendarEvent(Head(cycle.events), outcome) :
             outcome \in BackendOutcomes}
    ELSE {}

\* How the planning call the manual entry is suspended in may end.
ManualPlanResults ==
    IF manual.pc = "plan"
    THEN {PlanForManualRequest(manual.summary, manual.due, outcome) :
             outcome \in BackendOutcomes}
    ELSE {}

\* The steps of the coordinator's cycle, the calendars returning lists of `lists`.
CycleSteps(lists) ==
    \/ CycleStart
    \/ \E events \in lists : CycleFetchReturn(events)
    \/ CycleFetchFails
    \/ \E r \in CyclePlanResults : ~r.raised /\ CyclePlanReturn(r.plan)
    \/ (\E r \in CyclePlanResults : r.raised) /\ CyclePlanRaises

\* The steps of the add_manual_task service.
ManualSteps ==
    \/ \E summary \in ManualSummaries, due \in ManualDues : ManualStart(summary, due)
    \/ \E r \in ManualPlanResults : ~r.raised /\ ManualPlanReturn(r.plan)
    \/ (\E r \in ManualPlanResults : r.raised) /\ ManualPlanRaises

\* The calls of the todo entity.
ItemSteps ==
    \/ \E uid \in KnownOrNot, status \in Statuses \cup {NoStatus} : UpdateItem(uid, status)
    \/ \E uid \in KnownOrNot : DeleteItem(uid)

NextOf(lists) == CycleSteps(lists) \/ ManualSteps \/ ItemSteps

\* A calendar may return several events of one uid (the occurrences of a
\* recurring event share it).
Next == NextOf(EventLists)

Spec == Init /\ [][Next]_vars

\* The calendar returns every uid at most once.
NextDistinct == NextOf(DistinctEventLists)

SpecDistinct == Init /\ [][NextDistinct]_vars

\* The same machines, recording what the previous cycle fetched and observed.
InitCycles == InitWith(<<"c1">>, "off", TRUE)

SpecCycles == InitCycles /\ [][Next]_vars

SpecCyclesDistinct == InitCycles /\ [][NextDistinct]_vars

\* The integration with calendars only: no manual entry is ever requested.
NextCalendar == CycleSteps(DistinctEventLists) \/ ItemSteps

SpecCalendarCycles == InitCycles /\ [][NextCalendar]_vars

\* A calendar holding a timed event and an all-day event (start and end are
\* dates) that is seen on one day or on another.
AllDayPool ==
    { Event(1, <<"a">>, NoneStr, DateTime(1, 0), DateTime(2, 0)),
      Event(2, <<"a">>, NoneStr, Date(1), Date(2)),
      Event(2, <<"a">>, NoneStr, Date(3), Date(4)) }

AllDayLists ==
    {l \in ListsOf(AllDayPool) : \A i, j \in 1..Len(l) : l[i].uid = l[j].uid => i = j}

NextAllDay == NextOf(AllDayLists)

SpecAllDay == Init /\ [][NextAllDay]_vars

\* How the planning call the second run is suspended in may end.
RequestedPlanResults ==
    IF requested.pc = "plan"
    THEN {PlanForCalendarEvent(Head(requested.events), outcome) :
             outcome \in BackendOutcomes}
    ELSE {}

\* The steps of the second run of the cycle.
RequestedSteps(lists) ==
    \/ RequestedStart
    \/ \E events \in lists : RequestedFetchReturn(events)
    \/ RequestedFetchFails
    \/ \E r \in RequestedPlanResults : ~r.raised /\ RequestedPlanReturn(r.plan)
    \/ (\E r \in RequestedPlanResults : r.raised) /\ RequestedPlanRaises

\* A refresh is requested while the periodic one runs; the periodic one is
\* not started again before the requested one has ended.
NextOverlap ==
    \/ requested.pc = "idle" /\ CycleStart
    \/ \E events \in DistinctEventLists : CycleFetchReturn(events)
    \/ CycleFetchFails
    \/ \E r \in CyclePlanResults : ~r.raised /\ CyclePlanReturn(r.plan)
    \/ (\E r \in CyclePlanResults : r.raised) /\ CyclePlanRaises
    \/ RequestedSteps(DistinctEventLists)
    \/ ItemSteps

SpecOverlap == Init /\ [][NextOverlap]_vars

\* Manual entries of several summaries, with and without a due, next to the
\* calendar's tasks.
ListingSummaries == {<<"F", "i", "x">>, <<"a">>}
ListingDues == {DateTime(1, 0), NoDue}

NextListing ==
    \/ CycleSteps(DistinctEventLists)
    \/ \E summary \in ListingSummaries, due \in ListingDues : ManualStart(summary, due)
    \/ \E r \in ManualPlanResults : ~r.raised /\ ManualPlanReturn(r.plan)
    \/ (\E r \in ManualPlanResults : r.raised) /\ ManualPlanRaises
    \/ \E uid \in KnownOrNot : DeleteItem(uid)

SpecListing == Init /\ [][NextListing]_vars

\* The services of the integration next to the cycle and the todo entity,
\* recording every operation with the uid it was about.
InitServices == InitWith(<<"c1">>, "all", FALSE)

NextServices ==
    \/ CycleSteps(DistinctEventLists)
    \/ \E uid \in KnownOrNot : UpdateItem(uid, COMPLETED)
    \/ \E uid \in KnownOrNot : MarkInProgress(uid)

SpecServices == InitServices /\ [][NextServices]_vars

\* Two calendars configured, and no manual entry requested.
InitTwoCalendars == InitWith(<<"c1", "c2">>, "off", FALSE)

SpecTwoCalendars == InitTwoCalendars /\ [][NextCalendar]_vars

\* Two calendars, and a user who starts tasks and deletes them.
NextTwoCalendarsItems ==
    \/ CycleSteps(DistinctEventLists)
    \/ \E uid \in KnownOrNot : UpdateItem(uid, IN_PROGRESS)
    \/ \E uid \in KnownOrNot : DeleteItem(uid)

SpecTwoCalendarsItems == InitTwoCalendars /\ [][NextTwoCalendarsItems]_vars

\* The cycles over two calendars alone, recording how each step ended.
InitTwoCalendarsOps == InitWith(<<"c1", "c2">>, "all", FALSE)

NextCycle == CycleSteps(DistinctEventLists)

SpecTwoCalendarsOps == InitTwoCalendarsOps /\ [][NextCycle]_vars

---------------------------------------------------------------------------
(* Properties.                                                             *)

StatusInputs == Statuses \cup {NoStatus}

\* The parent tasks stored under a parent key.
ParentsOfKey(t, key) == {u \in DOMAIN t : t[u].is_parent /\ t[u].parent_key = key}

\* The child tasks whose parent reference is parent_uid.
ChildrenOf(t, parent_uid) ==
    {u \in DOMAIN t : ~t[u].is_parent /\ t[u].parent_uid = parent_uid}

\* The child tasks stored under a parent key.
ChildrenOfKey(t, key) == {u \in DOMAIN t : ~t[u].is_parent /\ t[u].parent_key = key}

\* The derivation rule of the specification, over a set of child tasks: no
\* children, all completed, any in progress, any completed, otherwise.
RuleStatus(t, children) ==
    CASE children = {} -> NEEDS_ACTION
      [] children # {} /\ (\A c \in children : t[c].status = COMPLETED) -> COMPLETED
      [] (\E c \in children : t[c].status = IN_PROGRESS) -> IN_PROGRESS
      [] (\E c \in children : t[c].status = COMPLETED)
         /\ (\E c \in children : t[c].status # COMPLETED)
         /\ (\A c \in children : t[c].status # IN_PROGRESS) -> IN_PROGRESS
      [] OTHER -> NEEDS_ACTION

\* C1: in every reachable state the store holds at most one task flagged
\* is_parent per parent key (so a replanned intent's previous parent is gone).
C1_AtMostOneParentPerKey ==
    \A u, v \in DOMAIN tasks :
        (tasks[u].is_parent /\ tasks[v].is_parent
         /\ tasks[u].parent_key = tasks[v].parent_key) => u = v

\* C2: in every reachable state every child task refers to a stored parent
\* task of its own parent key whose child-set holds the child, and every id in
\* a child-set is a stored child task.
C2_ChildParentConsistency ==
    /\ \A u \in DOMAIN tasks :
          ~tasks[u].is_parent =>
             /\ tasks[u].parent_uid \in DOMAIN tasks
             /\ tasks[tasks[u].parent_uid].is_parent
             /\ tasks[tasks[u].parent_uid].parent_key = tasks[u].parent_key
             /\ tasks[u].parent_key \in DOMAIN parent_children
             /\ u \in parent_children[tasks[u].parent_key]
    /\ \A key \in DOMAIN parent_children :
          \A c \in parent_children[key] :
             c \in DOMAIN tasks /\ ~tasks[c].is_parent

\* A child lives under a replanned key: its parent and the parent of the
\* replaced plan are both stored.
C2_Witness ==
    \E u, v \in DOMAIN tasks :
        /\ ~tasks[u].is_parent
        /\ tasks[v].is_parent
        /\ tasks[v].parent_key = tasks[u].parent_key
        /\ v # tasks[u].parent_uid
        /\ tasks[u].parent_uid \in DOMAIN tasks

\* C3: a cycle that fetches what the previous, completed cycle fetched calls
\* the planner for no event and leaves tasks, child-sets, metadata and
\* signatures as they were.
C3_RepeatedCycleIsIdempotent ==
    [][(/\ cycle.pc = "fetch"
        /\ cycle.repeat
        /\ CycleFetchReturn(prev.fetched[cycle.ci]))
       => (cycle'.pc # "plan" /\ UNCHANGED store)]_vars

\* C4 as claimed: when an update_item or delete_item call has completed, every
\* parent task's status is the derivation rule applied to its children.
C4_ParentStatusAlwaysDerived ==
    \A uid \in DOMAIN tasks :
        LET Derived(t) ==
                \A p \in DOMAIN t :
                    t[p].is_parent => t[p].status = RuleStatus(t, ChildrenOf(t, p))
        IN  /\ Derived(DeleteItemStore(CurrentStore, uid).tasks)
            /\ \A status \in StatusInputs :
                   Derived(UpdateItemTasks(tasks, parent_children, uid, status))

\* C4 as amended: update_item or delete_item on a child leaves that child's
\* parent with the status derived from its current children; update_item on a
\* parent gives the parent the status passed, whatever its children's are.
C4_StatusAfterItemCall ==
    \A uid \in DOMAIN tasks :
        IF tasks[uid].is_parent
        THEN \A status \in StatusInputs :
                UpdateItemTasks(tasks, parent_children, uid, status)[uid].status
                   = NewStatus(status)
        ELSE LET p == tasks[uid].parent_uid
                 Derived(t) ==
                     p \in DOMAIN t /\ t[p].status = RuleStatus(t, ChildrenOf(t, p))
             IN  /\ Derived(DeleteItemStore(CurrentStore, uid).tasks)
                 /\ \A status \in StatusInputs :
                        Derived(UpdateItemTasks(tasks, parent_children, uid, status))

\* Updates of two children have left one in progress and one completed, and
\* their parent IN_PROGRESS.
C4_Witness ==
    \E p \in DOMAIN tasks :
        /\ tasks[p].is_parent
        /\ tasks[p].status = IN_PROGRESS
        /\ \E c, d \in ChildrenOf(tasks, p) :
              tasks[c].status = IN_PROGRESS /\ tasks[d].status = COMPLETED

\* C5: when a cycle completes, no task is stored under a key that the
\* previous cycle observed and this one did not.
C5_AbsentIntentPruned ==
    [][(cycle.pc # "idle" /\ cycle'.pc = "idle" /\ prev'.completed)
       => \A key \in prev.observed \ prev'.observed :
             \A u \in DOMAIN tasks' : tasks'[u].parent_key # key]_vars

\* C6: a signature is recorded for a key only while a plan is installed for
\* that key (metadata and its parent task), and it is the signature of an intent
\* with the installed plan's title.
C6_SignatureOnlyForInstalledPlan ==
    \A key \in DOMAIN event_signatures :
        /\ key \in DOMAIN parent_meta
        /\ parent_meta[key].parent_uid \in DOMAIN tasks
        /\ LET title == OrStr(parent_meta[key].summary, <<>>) \o <<"|">>
           IN  SubSeq(event_signatures[key], 1, Len(title)) = title

\* C7: delete_item on a task flagged is_parent removes that task, every child
\* of its parent key, and the key's child-set and metadata.
C7_DeleteParentRemovesSubtree ==
    [][\A uid \in DOMAIN tasks :
          (tasks[uid].is_parent /\ DeleteItem(uid))
          => LET key == tasks[uid].parent_key
             IN  /\ uid \notin DOMAIN tasks'
                 /\ ChildrenOfKey(tasks', key) = {}
                 /\ key \notin DOMAIN parent_children'
                 /\ key \notin DOMAIN parent_meta']_vars

\* C8: delete_item on a child removes exactly that task from the store and
\* from its key's child-set, gives its parent the status derived from the
\* remaining children (NEEDS_ACTION when none remains) and changes nothing
\* else of any task.
C8_DeleteChild ==
    \A uid \in DOMAIN tasks :
        ~tasks[uid].is_parent
        => LET after == DeleteItemStore(CurrentStore, uid)
               key == tasks[uid].parent_key
               p == tasks[uid].parent_uid
               remaining == ChildrenOf(tasks, p) \ {uid}
           IN  /\ DOMAIN after.tasks = (DOMAIN tasks) \ {uid}
               /\ uid \in parent_children[key]
               /\ after.parent_children =
                     [parent_children EXCEPT ![key] = parent_children[key] \ {uid}]
               /\ after.tasks[p].status = RuleStatus(tasks, remaining)
               /\ (remaining = {} => after.tasks[p].status = NEEDS_ACTION)
               /\ after.tasks[p] = [tasks[p] EXCEPT !.status = after.tasks[p].status]
               /\ \A v \in (DOMAIN after.tasks) \ {p} : after.tasks[v] = tasks[v]

\* The first child of a two-task plan is gone and the parent is COMPLETED, as
\* derived from the remaining child.
C8_Witness ==
    \E p \in DOMAIN tasks :
        /\ tasks[p].is_parent
        /\ (p + 1) \notin DOMAIN tasks
        /\ ChildrenOf(tasks, p) = {p + 2}
        /\ tasks[p + 2].status = COMPLETED
        /\ tasks[p].status = COMPLETED

\* C9: update_item on a parent: COMPLETED makes every child of its key
\* COMPLETED; NEEDS_ACTION makes the COMPLETED children NEEDS_ACTION and keeps
\* the others; IN_PROGRESS changes no child.  So COMPLETED and then
\* NEEDS_ACTION on a parent of NEEDS_ACTION children leaves them NEEDS_ACTION.
C9_UpdateParentPropagates ==
    \A uid \in DOMAIN tasks :
        tasks[uid].is_parent
        => LET children == ChildrenOfKey(tasks, tasks[uid].parent_key)
               After(t, status) == UpdateItemTasks(t, parent_children, uid, status)
           IN  /\ \A status \in StatusInputs, c \in children :
                     /\ c \in DOMAIN After(tasks, status)
                     /\ After(tasks, status)[c].status =
                           CASE status = COMPLETED -> COMPLETED
                             [] status = IN_PROGRESS -> tasks[c].status
                             [] OTHER -> IF tasks[c].status = COMPLETED
                                         THEN NEEDS_ACTION
                                         ELSE tasks[c].status
               /\ (\A c \in children : tasks[c].status = NEEDS_ACTION)
                  => \A c \in children :
                        After(After(tasks, COMPLETED), NEEDS_ACTION)[c].status
                           = NEEDS_ACTION

\* A parent the user set back to NEEDS_ACTION while one child is in progress:
\* that child kept its status.
C9_Witness ==
    \E p \in DOMAIN tasks :
        /\ tasks[p].is_parent
        /\ tasks[p].status = NEEDS_ACTION
        /\ \E c, d \in ChildrenOf(tasks, p) :
              tasks[c].status = IN_PROGRESS /\ tasks[d].status = NEEDS_ACTION

\* C10: after update_item on a child, its parent's status is the rule over
\* the parent's current children: none NEEDS_ACTION, all completed COMPLETED,
\* any in progress IN_PROGRESS, some completed IN_PROGRESS, else NEEDS_ACTION.
C10_UpdateChildDerivesParent ==
    \A uid \in DOMAIN tasks, status \in StatusInputs :
        ~tasks[uid].is_parent
        => LET after == UpdateItemTasks(tasks, parent_children, uid, status)
               p == tasks[uid].parent_uid
               children == ChildrenOf(after, p)
               all(st) == \A c \in children : after[c].status = st
               any(st) == \E c \in children : after[c].status = st
           IN  /\ p \in DOMAIN after
               /\ uid \in children
               /\ after[uid].status = NewStatus(status)
               /\ (children = {} => after[p].status = NEEDS_ACTION)
               /\ (all(COMPLETED) => after[p].status = COMPLETED)
               /\ (any(IN_PROGRESS) => after[p].status = IN_PROGRESS)
               /\ (any(COMPLETED) /\ ~all(COMPLETED) => after[p].status = IN_PROGRESS)
               /\ (all(NEEDS_ACTION) => after[p].status = NEEDS_ACTION)

\* One child completed, the other not started: the parent is IN_PROGRESS.
C10_Witness ==
    \E p \in DOMAIN tasks :
        /\ tasks[p].is_parent
        /\ tasks[p].status = IN_PROGRESS
        /\ \E c, d \in ChildrenOf(tasks, p) :
              tasks[c].status = COMPLETED /\ tasks[d].status = NEEDS_ACTION

\* The plans replace_subtree may be given: the backend's and the fallback's.
InstallablePlans == Plans \cup {FallbackPlan(CalendarPayload(e)) : e \in EventPool}

\* C11: right after replace_subtree(parent_key, plan) the key's child-set has
\* as many members as the plan has tasks, each a stored child task referring
\* to the new parent, and no child of the plan it replaced is stored.
C11_ReplaceSubtree ==
    \A key \in DOMAIN parent_meta, plan \in InstallablePlans :
        LET after == ReplaceParentTasks(CurrentStore, key, plan, NoDue)
            parent_uid == after.parent_meta[key].parent_uid
        IN  /\ parent_uid \notin DOMAIN tasks
            /\ parent_uid \in DOMAIN after.tasks
            /\ after.tasks[parent_uid].is_parent
            /\ Cardinality(after.parent_children[key]) = Len(plan.tasks)
            /\ \A c \in after.parent_children[key] :
                  /\ c \in DOMAIN after.tasks
                  /\ ~after.tasks[c].is_parent
                  /\ after.tasks[c].parent_uid = parent_uid
            /\ ChildrenOfKey(after.tasks, key) = after.parent_children[key]
            /\ \A c \in ChildrenOfKey(tasks, key) : c \notin DOMAIN after.tasks

\* A key was replanned with a plan that has tasks: its metadata names a parent
\* created after another parent of the key, and that parent has children.
C11_Witness ==
    \E key \in DOMAIN parent_meta :
        LET p == parent_meta[key].parent_uid
        IN  /\ p \in DOMAIN tasks
            /\ \E q \in ParentsOfKey(tasks, key) : q < p
            /\ parent_children[key] # {}
            /\ ChildrenOf(tasks, p) = parent_children[key]

\* C12: a parent created by replace_subtree is NEEDS_ACTION exactly when the
\* plan has no tasks and IN_PROGRESS otherwise, and every child it creates is
\* NEEDS_ACTION, whatever the statuses of the replaced plan's tasks were.
C12_StatusAtCreation ==
    \A key \in DOMAIN parent_meta, plan \in InstallablePlans :
        LET after == ReplaceParentTasks(CurrentStore, key, plan, NoDue)
            parent_uid == after.parent_meta[key].parent_uid
        IN  /\ after.tasks[parent_uid].status =
                  IF Len(plan.tasks) = 0 THEN NEEDS_ACTION ELSE IN_PROGRESS
            /\ \A c \in after.parent_children[key] :
                  after.tasks[c].status = NEEDS_ACTION

\* The parent of the replaced plan had been completed; the new parent is
\* IN_PROGRESS and its children NEEDS_ACTION.
C12_Witness ==
    \E key \in DOMAIN parent_meta :
        LET p == parent_meta[key].parent_uid
        IN  /\ p \in DOMAIN tasks
            /\ \E q \in ParentsOfKey(tasks, key) : q < p /\ tasks[q].status = COMPLETED
            /\ tasks[p].status = IN_PROGRESS
            /\ ChildrenOf(tasks, p) # {}
            /\ \A c \in ChildrenOf(tasks, p) : tasks[c].status = NEEDS_ACTION

\* key.startswith("manual:")
IsManualKey(key) == key.src = "manual"

\* C13: no step of a reconciliation cycle removes or changes a task, child-set
\* or metadata of a manual key, and a manual task leaves the store only by
\* delete_item on a task of its subtree.
C13_ManualSubtreesOutliveCycles ==
    [][\A u \in DOMAIN tasks :
          IsManualKey(tasks[u].parent_key)
          => LET key == tasks[u].parent_key
             IN  /\ cycle' # cycle
                    => /\ u \in DOMAIN tasks'
                       /\ tasks'[u] = tasks[u]
                       /\ key \in DOMAIN parent_children'
                       /\ parent_children'[key] = parent_children[key]
                       /\ key \in DOMAIN parent_meta'
                       /\ parent_meta'[key] = parent_meta[key]
                 /\ u \notin DOMAIN tasks'
                    => \E uid \in DOMAIN tasks :
                          tasks[uid].parent_key = key /\ DeleteItem(uid)]_vars

\* A cycle has installed a calendar plan and pruned while a manual subtree,
\* created before, was stored: both are there after the cycle.
C13_Witness ==
    /\ cycle.pc = "idle"
    /\ \E u, v \in DOMAIN tasks :
          /\ IsManualKey(tasks[u].parent_key)
          /\ IsCalendarKey(tasks[v].parent_key)
          /\ tasks[v].is_parent
          /\ u < v

SameButDescription(e1, e2) ==
    /\ e1.uid = e2.uid
    /\ e1.summary = e2.summary
    /\ e1.start = e2.start
    /\ e1.end_ = e2.end_

C16_SignatureRendersStartEnd ==
    cycle.pc = "plan" =>
        LET event == Head(cycle.events) IN
        /\ event.start # NoDue => IsoOrEmpty(event.start) # <<>>
        /\ event.end_ # NoDue => IsoOrEmpty(event.end_) # <<>>
        /\ \A other \in AllDayPool :
               ( /\ other.summary = event.summary
                 /\ other.description = event.description
                 /\ (other.start # event.start \/ other.end_ # event.end_) )
               => EventSignature(other) # EventSignature(event)

\* The planning call ended by returning the fallback plan of `payload`.
IsFallback(result, payload) ==
    /\ ~result.raised
    /\ result.plan = FallbackPlan(payload)
    /\ Len(result.plan.tasks) > 0
    /\ result.plan.mental_load = <<"unknown">>

\* C17: whichever way the backend fails (connection error, timeout, HTTP
\* error status, body that is not JSON, missing key, empty choices list), the
\* planning call the cycle or the manual entry is suspended in returns the
\* fallback plan (non-empty, assessment "unknown") and raises nothing.
C17_BackendFailureGivesFallback ==
    \A failure \in BackendFailures :
        LET outcome == [kind |-> failure, answer |-> NoPlan] IN
        /\ cycle.pc = "plan" =>
               IsFallback(PlanForCalendarEvent(Head(cycle.events), outcome),
                          CalendarPayload(Head(cycle.events)))
        /\ manual.pc = "plan" =>
               IsFallback(PlanForManualRequest(manual.summary, manual.due, outcome),
                          ManualPayload(manual.summary, manual.due))

\* C18: when the planning call for the intent being processed fails, the
\* cycle goes on as the loop would after that intent: the later intents of
\* the cycle are processed (planned or skipped) and the prune runs at the end.
C18_PlanningFailureDoesNotStopCycle ==
    [][ (cycle.pc = "plan" /\ cycle' # cycle /\ uuidCount' = uuidCount) =>
            LET r == RunCycle(calendars, CurrentStore, cycle.ci,
                              Tail(cycle.events), cycle.observed)
            IN  /\ cycle'.pc = r.cycle.pc
                /\ cycle'.events = r.cycle.events
                /\ tasks' = r.store.tasks
                /\ parent_meta' = r.store.parent_meta ]_vars

\* C19: whatever the read of a calendar that is not the last one gives, a
\* list of events or a failure, the cycle goes on, so that the calendars
\* listed after it are read and their intents processed in the same cycle.
C19_FailedReadDoesNotStopCycle ==
    [][ (cycle.pc = "fetch" /\ cycle.ci < Len(calendars) /\ cycle' # cycle) =>
            cycle'.pc # "idle" ]_vars

\* C20: when the planning call for an intent raises, the tasks, the
\* child-sets, the metadata and the recorded signatures are left exactly as
\* they were, so the plan installed before for the intent's key stays, and
\* the signature test still fails for the intent: a cycle that fetches it
\* again hands it to the planner again.
C20_FailedPlanningKeepsPreviousPlan ==
    [][ (cycle.pc = "plan" /\ cycle' # cycle /\ uuidCount' = uuidCount) =>
            LET event == Head(cycle.events)
                parent_key == MakeParentKey(calendars[cycle.ci], event)
                after == Store(tasks', parent_children', parent_meta',
                               event_signatures', uuidCount')
            IN  /\ tasks' = tasks
                /\ parent_children' = parent_children
                /\ parent_meta' = parent_meta
                /\ event_signatures' = event_signatures
                /\ ~SignatureUnchanged(after, parent_key, event)
                /\ RunCycle(calendars, after, cycle.ci, <<event>>, {}).cycle.pc = "plan"
      ]_vars

\* A cycle ended in a planning call that raised, for an intent whose key has
\* a plan installed and a signature recorded from an earlier cycle.
C20_Witness ==
    /\ prev # Off
    /\ ~prev.completed
    /\ cycle.pc = "idle"
    /\ \E parent_key \in prev.observed :
           /\ parent_key \in DOMAIN parent_meta
           /\ parent_key \in DOMAIN event_signatures
           /\ parent_meta[parent_key].parent_uid \in DOMAIN tasks
           /\ ChildrenOfKey(tasks, parent_key) # {}

\* C21: of two processings of one key in flight, the one that started second
\* does not install its plan while the one that started first is still
\* suspended in its planning call: plans are installed in the order the
\* processings started, and the last installation is the last started's.
C21_InstalledInStartOrder ==
    [][ ( /\ requested.pc = "plan"
          /\ requested.behind
          /\ requested' # requested
          /\ uuidCount' # uuidCount )
        => ~( /\ cycle.pc = "plan"
              /\ MakeParentKey(calendars[cycle.ci], Head(cycle.events)) =
                     MakeParentKey(calendars[requested.ci], Head(requested.events)) )
      ]_vars

\* C22: the item-level calls run between the steps of the cycle, so what
\* they observe is the state after a step.  After the step that installs a
\* plan for a key, whatever calls ran while the key was being replanned, the
\* tasks stored under the key are exactly the new plan's subtree: the new
\* parent and all the children of its plan, each referring to that parent.
C22_SubtreeSeenWhole ==
    [][ (cycle.pc = "plan" /\ cycle' # cycle /\ uuidCount' # uuidCount) =>
            LET parent_key == MakeParentKey(calendars[cycle.ci], Head(cycle.events))
                parent_uid == parent_meta'[parent_key].parent_uid
            IN  /\ ParentsOfKey(tasks', parent_key) = {parent_uid}
                /\ ChildrenOfKey(tasks', parent_key) = parent_children'[parent_key]
                /\ Cardinality(parent_children'[parent_key]) = uuidCount' - uuidCount - 1
                /\ \A c \in parent_children'[parent_key] :
                       tasks'[c].parent_uid = parent_uid
      ]_vars

UnknownUids == (0..(uuidCount + 1)) \ DOMAIN tasks

\* C24: update_item and delete_item with an id that is not in the store
\* leave the tasks, the child-sets, the metadata and the signatures as they
\* are.
C24_UnknownIdIsNoOp ==
    \A uid \in UnknownUids :
        /\ DeleteItemCall(CurrentStore, uid) = CurrentStore
        /\ \A status \in StatusInputs :
               UpdateItemCall(CurrentStore, uid, status) = CurrentStore

\* The store holds a plan with children and a signature, and the id of a
\* task that was stored before is no longer in it.
C24_Witness ==
    /\ \E uid \in 1..uuidCount : uid \notin DOMAIN tasks
    /\ \E key \in DOMAIN parent_children : parent_children[key] # {}
    /\ event_signatures # << >>

\* The listeners were called, the last time on the store `result`.
NotifiedOf(notified, result) ==
    notified # <<>> /\ notified[Len(notified)] = result

\* C25: each operation that changes the task collection calls the listeners
\* on the store as the operation leaves it: update_item and delete_item on
\* a known id, a prune that removes a subtree, and the installation of the
\* plan the cycle is waiting for.
C25_ListenersCalledAfterChange ==
    /\ \A uid \in DOMAIN tasks \cup UnknownUids :
           /\ \A status \in StatusInputs :
                  LET result == UpdateItemCall(CurrentStore, uid, status)
                  IN  (uid \in DOMAIN tasks \/ result # CurrentStore) =>
                          NotifiedOf(UpdateItemNotified(CurrentStore, uid, status), result)
           /\ LET result == DeleteItemCall(CurrentStore, uid)
              IN  (uid \in DOMAIN tasks \/ result # CurrentStore) =>
                      NotifiedOf(DeleteItemNotified(CurrentStore, uid), result)
    /\ \A valid \in SUBSET {key \in DOMAIN parent_meta : IsCalendarKey(key)} :
           LET result == RemoveMissingCalendarEvents(CurrentStore, valid)
           IN  result # CurrentStore =>
                   NotifiedOf(RemoveMissingCalendarEventsNotified(CurrentStore, valid),
                              result)
    /\ cycle.pc = "plan" =>
           \A r \in CyclePlanResults :
               ~r.raised =>
                   LET event == Head(cycle.events)
                       parent_key == MakeParentKey(calendars[cycle.ci], event)
                   IN  NotifiedOf(ProcessCalendarEventNotified(CurrentStore, parent_key,
                                                              event, r.plan),
                                  ProcessCalendarEventInstall(CurrentStore, parent_key,
                                                              event, r.plan))


\* A plan with children is installed and the cycle waits for the plan that
\* will replace it: updates, deletes, a prune and an installation all have
\* something to change.
C25_Witness ==
    /\ cycle.pc = "plan"
    /\ \E key \in DOMAIN parent_meta :
           /\ IsCalendarKey(key)
           /\ parent_meta[key].parent_uid \in DOMAIN tasks
           /\ parent_children[key] # {}

\* Requests the fallback may be asked to plan: a summary with a keyword and
\* one without, with and without a description, a due and an end.
FallbackRequests ==
    [summary : ListingSummaries,
     description : {NoneStr, <<"d">>},
     due : {NoneStr, PayloadTime(DateTime(1, 0))},
     end_ : {NoneStr, PayloadTime(DateTime(2, 0))}]

\* The titles of a plan, in order.
Titles(plan) == [i \in 1..Len(plan.tasks) |-> plan.tasks[i].title]

\* The fallback plan of `payload` has tasks, and every request of the same
\* summary and description gets the same titles in the same order.
FallbackDetermined(payload) ==
    LET titles == Titles(FallbackPlan(payload))
    IN  /\ Len(titles) > 0
        /\ \A other \in FallbackRequests :
               (other.summary = payload.summary /\ other.description = payload.description)
               => Titles(FallbackPlan(other)) = titles

\* C26: the titles and the number of tasks of the fallback plan depend on the
\* summary and the description of the request only, and the plan is never
\* empty, for the request the cycle or the manual entry is waiting on.
C26_FallbackDeterminedBySummaryAndDescription ==
    /\ cycle.pc = "plan" /\ ~PayloadTimeRaises(Head(cycle.events).start)
       => FallbackDetermined(CalendarPayload(Head(cycle.events)))
    /\ manual.pc = "plan"
       => FallbackDetermined(ManualPayload(manual.summary, manual.due))

\* The manual entry and the cycle wait for plans of requests with the same
\* summary and description, one with a due or an end and one without.
C26_Witness ==
    /\ cycle.pc = "plan"
    /\ manual.pc = "plan"
    /\ manual.summary = Head(cycle.events).summary
    /\ Head(cycle.events).description = NoneStr
    /\ manual.due = NoDue

\* C27: the "mark in progress" command called with the id of a stored task
\* acts as update_item(id, IN_PROGRESS): the task's status becomes
\* IN_PROGRESS and a child's parent is re-derived.
C27_MarkInProgressUpdates ==
    [][\A uid \in DOMAIN tasks :
          (last'.op \in {"mark_in_progress", "mark_in_progress_raised"} /\ last'.uid = uid)
          => /\ last'.op = "mark_in_progress"
             /\ tasks' = UpdateItemCall(CurrentStore, uid, IN_PROGRESS).tasks
             /\ tasks'[uid].status = IN_PROGRESS]_vars
\* C28: a cycle in which the read of a calendar fails removes no subtree.
\* The failing read ends the cycle with the store as it was, the prune not
\* run; and no step of the cycle before it touches a task, child-set,
\* metadata or signature of a key other than the one it installs a plan for.
C28_FailedReadRemovesNoSubtree ==
    [][ /\ (cycle.pc = "fetch" /\ last'.op = "fetch_failed")
           => (cycle'.pc = "idle" /\ UNCHANGED <<store, uuidCount>>)
        /\ (cycle' # cycle /\ cycle'.pc # "idle")
           => \A key \in DOMAIN parent_meta :
                 (cycle.pc = "plan" /\ uuidCount' # uuidCount
                  /\ key = MakeParentKey(calendars[cycle.ci], Head(cycle.events)))
                 \/ /\ key \in DOMAIN parent_meta' /\ parent_meta'[key] = parent_meta[key]
                    /\ parent_children'[key] = parent_children[key]
                    /\ event_signatures'[key] = event_signatures[key]
                    /\ \A u \in DOMAIN tasks :
                           tasks[u].parent_key = key
                           => (u \in DOMAIN tasks' /\ tasks'[u] = tasks[u])
      ]_vars

\* A read has failed and ended the cycle while subtrees of both calendars
\* were stored: the second calendar's intents had not been read in the cycle,
\* and their subtree is still there.
C28_Witness ==
    /\ last.op = "fetch_failed"
    /\ cycle.pc = "idle"
    /\ \E k1, k2 \in DOMAIN parent_meta :
          /\ k1.cal = "c1" /\ k2.cal = "c2"
          /\ parent_meta[k1].parent_uid \in DOMAIN tasks
          /\ parent_meta[k2].parent_uid \in DOMAIN tasks
\* C29: when a cycle completes without error, every calendar key it observed
\* has its metadata stored and its parent task in the store, whatever
\* happened to the key before the cycle.
C29_ObservedIntentHasParent ==
    [][(cycle.pc # "idle" /\ cycle'.pc = "idle" /\ prev'.completed)
       => \A key \in prev'.observed :
             /\ key \in DOMAIN parent_meta'
             /\ ParentsOfKey(tasks', key) # {}
             /\ parent_meta'[key].parent_uid \in ParentsOfKey(tasks', key)]_vars
\* The store without what it holds for parent key `key`.
WithoutKey(s, key) ==
    [tasks |-> [u \in {v \in DOMAIN s.tasks : s.tasks[v].parent_key # key} |-> s.tasks[u]],
     parent_children |-> [k \in DOMAIN s.parent_children \ {key} |-> s.parent_children[k]],
     parent_meta |-> [k \in DOMAIN s.parent_meta \ {key} |-> s.parent_meta[k]]]

\* C30: update_item and delete_item on a stored task of parent key K leave
\* the tasks, child-sets and metadata of every other key as they are, and
\* update_item keeps the set of stored tasks and every field of every task
\* but the status.
C30_OtherKeysUntouched ==
    \A uid \in DOMAIN tasks :
        LET key == tasks[uid].parent_key
        IN  /\ WithoutKey(DeleteItemCall(CurrentStore, uid), key)
                  = WithoutKey(CurrentStore, key)
            /\ \A status \in StatusInputs :
                   LET updated == UpdateItemCall(CurrentStore, uid, status)
                   IN  /\ WithoutKey(updated, key) = WithoutKey(CurrentStore, key)
                       /\ DOMAIN updated.tasks = DOMAIN tasks
                       /\ \A u \in DOMAIN tasks :
                              [updated.tasks[u] EXCEPT !.status = tasks[u].status]
                                 = tasks[u]
                       /\ updated.parent_children = parent_children
                       /\ updated.parent_meta = parent_meta
                       /\ updated.event_signatures = event_signatures

\* Two keys are stored, one with a child that an update has put in progress,
\* the other with its parent as installed.
C30_Witness ==
    \E c, q \in DOMAIN tasks :
        /\ ~tasks[c].is_parent /\ tasks[c].status = IN_PROGRESS
        /\ tasks[q].is_parent /\ tasks[q].parent_key # tasks[c].parent_key
        /\ tasks[c].parent_uid \in DOMAIN tasks
\* C31: in every reachable state, every child task whose parent reference is
\* the id of a stored parent task with status COMPLETED has status COMPLETED.
C31_CompletedParentHasCompletedChildren ==
    \A p \in DOMAIN tasks :
        (tasks[p].is_parent /\ tasks[p].status = COMPLETED)
        => \A c \in ChildrenOf(tasks, p) : tasks[c].status = COMPLETED
====
